---------------------------- MODULE Spec2Model ----------------------------
(***************************************************************************)
(* Configuration resolver (app/config.py) and health reporter              *)
(* (app/api/v1/health.py).                                                  *)
(*                                                                         *)
(* Text that the code manipulates character by character (environment      *)
(* values, exception messages) is a sequence of one-character strings.     *)
(* Fixed tokens (environment key names, file names, the literals           *)
(* "healthy", "connected", "disconnected") are TLA+ strings.               *)
(* A mapping (os.environ, the contents of a dotenv file) is a function     *)
(* whose DOMAIN is the set of keys that are set.                           *)
(***************************************************************************)
EXTENDS Integers, Sequences, FiniteSets, TLC

(***************************************************************************)
(* Bounds of the model.                                                    *)
(***************************************************************************)
NumContexts == 2

Contexts == 1..NumContexts

(***************************************************************************)
(* Python str operations used by the code.                                 *)
(***************************************************************************)
EmptyMap == [k \in {} |-> <<>>]

\* one character of str.lower()
LowerChar(c) ==
    CASE c = "A" -> "a" [] c = "E" -> "e" [] c = "F" -> "f" [] c = "L" -> "l"
      [] c = "R" -> "r" [] c = "S" -> "s" [] c = "T" -> "t" [] c = "U" -> "u"
      [] OTHER -> c

\* str.lower()
lower(s) == [i \in 1..Len(s) |-> LowerChar(s[i])]

IsSpace(c) == c \in {" ", "\t"}

RECURSIVE lstrip(_)
lstrip(s) == IF s # <<>> /\ IsSpace(Head(s)) THEN lstrip(Tail(s)) ELSE s

RECURSIVE rstrip(_)
rstrip(s) ==
    IF s # <<>> /\ IsSpace(s[Len(s)]) THEN rstrip(SubSeq(s, 1, Len(s) - 1)) ELSE s

\* str.strip()
strip(s) == rstrip(lstrip(s))

\* str.split(sep) for a one-character separator: always at least one piece
RECURSIVE split(_, _)
split(s, sep) ==
    IF \E i \in 1..Len(s) : s[i] = sep
    THEN LET i == CHOOSE j \in 1..Len(s) :
                    s[j] = sep /\ \A m \in 1..(j - 1) : s[m] # sep
         IN  <<SubSeq(s, 1, i - 1)>> \o split(SubSeq(s, i + 1, Len(s)), sep)
    ELSE <<s>>

Digits == {"0", "1", "2", "3", "4", "5", "6", "7", "8", "9"}

DigitVal(c) ==
    CASE c = "0" -> 0 [] c = "1" -> 1 [] c = "2" -> 2 [] c = "3" -> 3
      [] c = "4" -> 4 [] c = "5" -> 5 [] c = "6" -> 6 [] c = "7" -> 7
      [] c = "8" -> 8 [] c = "9" -> 9

\* whether the int coercion of a field accepts the text
IsIntText(s) == s # <<>> /\ \A i \in 1..Len(s) : s[i] \in Digits

RECURSIVE IntOfText(_)
IntOfText(s) ==
    IF s = <<>> THEN 0
    ELSE IntOfText(SubSeq(s, 1, Len(s) - 1)) * 10 + DigitVal(s[Len(s)])

(***************************************************************************)
(* Texts the code names.                                                   *)
(***************************************************************************)
development == <<"d", "e", "v", "e", "l", "o", "p", "m", "e", "n", "t">>
production == <<"p", "r", "o", "d", "u", "c", "t", "i", "o", "n">>
staging == <<"s", "t", "a", "g", "i", "n", "g">>
test == <<"t", "e", "s", "t">>
DebugDefault == <<"f", "a", "l", "s", "e">>
ApiVersionDefault == <<"v", "1">>
TrueText == <<"t", "r", "u", "e">>
ExpireMinutesDefault == 15

\* the fallback of os.getenv("CORS_ORIGINS", [...]): a list of two texts
CorsFallbackList ==
    << <<"h", "t", "t", "p", ":", "/", "/", "l", "o", "c", "a", "l", "h", "o", "s", "t", ":", "5", "1", "7", "3", ",", " ", "h", "t", "t", "p", ":", "/", "/", "l", "o", "c", "a", "l", "h", "o", "s", "t", ":", "3", "0", "0", "0">>,
       <<"t", "i", "m", "e", "l", "e", "s", "s", "l", "o", "v", "e", ".", "a", "i">> >>

(***************************************************************************)
(* Module-level loading of app/config.py.                                  *)
(***************************************************************************)
\* os.getenv(key, default)
getenv(e, key, default) == IF key \in DOMAIN e THEN e[key] ELSE default

env_file_map ==
    { <<production, ".env.production">>, <<staging, ".env.staging">>,
      <<test, ".env.test">>, <<development, ".env.local">> }

\* env_file_map.get(env, ".env")
env_file(e) ==
    LET env == getenv(e, "ENVIRONMENT", development)
    IN  IF \E p \in env_file_map : p[1] = env
        THEN (CHOOSE p \in env_file_map : p[1] = env)[2]
        ELSE ".env"

\* os.path.exists(path)
exists(d, path) == path \in DOMAIN d

\* a load_dotenv that overrides whether asked to or not
load_dotenv_always(e, file, override) ==
    [k \in DOMAIN e \cup DOMAIN file |-> IF k \in DOMAIN file THEN file[k] ELSE e[k]]

\* dotenv.load_dotenv: every key of the file is set in the environment when
\* override is given or the environment does not hold the key yet
load_dotenv(e, file, override) ==
    [k \in DOMAIN e \cup DOMAIN file |->
        IF k \in DOMAIN file /\ (override \/ k \notin DOMAIN e) THEN file[k] ELSE e[k]]

\* load_dotenv is called without override for the tiered file, and the
\* generic .env is loaded only when the tiered file does not exist
LoadEnvFiles(e, d) ==
    IF exists(d, env_file(e)) THEN load_dotenv(e, d[env_file(e)], FALSE)
    ELSE IF exists(d, ".env") THEN load_dotenv(e, d[".env"], FALSE)
    ELSE e

\* the class attribute default of cors_origins, evaluated when the class
\* body runs: the environment's text, or the fallback list
CorsClassDefault(e) ==
    IF "CORS_ORIGINS" \in DOMAIN e
    THEN [isStr |-> TRUE, items |-> <<e["CORS_ORIGINS"]>>]
    ELSE [isStr |-> FALSE, items |-> CorsFallbackList]

(***************************************************************************)
(* class Settings(BaseSettings).  Field names are matched to environment   *)
(* keys without regard to case, so a field is named here by its key.       *)
(* The fields modelled: the five required texts, the three runtime         *)
(* descriptors, cors_origins and one of the integer fields.                *)
(***************************************************************************)
RequiredFields ==
    {"SUPABASE_URL", "SUPABASE_ANON_KEY", "SUPABASE_SERVICE_ROLE_KEY",
     "SUPABASE_JWT_SECRET", "JWT_SECRET_KEY"}

IntFields == {"JWT_ACCESS_TOKEN_EXPIRE_MINUTES"}

DefaultedTextFields == {"ENVIRONMENT", "DEBUG", "API_VERSION"}

Fields == RequiredFields \cup IntFields \cup DefaultedTextFields \cup {"CORS_ORIGINS"}

\* the declared default of a defaulted text field
TextDefault(k) ==
    CASE k = "ENVIRONMENT" -> development
      [] k = "DEBUG" -> DebugDefault
      [] k = "API_VERSION" -> ApiVersionDefault

\* settings read from the process environment alone
RawEnvironOnly(k, e, d) == IF k \in DOMAIN e THEN <<e[k]>> ELSE <<>>

\* the settings sources in their order of precedence: the process environment,
\* then the file model_config names (".env"); <<>> when neither holds the key
Raw(k, e, d) ==
    IF k \in DOMAIN e THEN <<e[k]>>
    ELSE IF exists(d, ".env") /\ k \in DOMAIN d[".env"] THEN <<d[".env"][k]>>
    ELSE <<>>

\* the required fields no source provides
Missing(e, d) == {k \in RequiredFields : Raw(k, e, d) = <<>>}

\* the fields whose value fails validation: an integer field given other
\* text, and cors_origins left to a class default that is not a str
\* (BaseSettings validates defaults)
Invalid(e, d, cd) ==
    {k \in IntFields : Raw(k, e, d) # <<>> /\ ~IsIntText(Raw(k, e, d)[1])}
    \cup (IF Raw("CORS_ORIGINS", e, d) = <<>> /\ ~cd.isStr THEN {"CORS_ORIGINS"} ELSE {})

\* the value a field gets once validation has passed
FieldValue(k, e, d, cd) ==
    LET r == Raw(k, e, d)
    IN  IF k \in IntFields
        THEN (IF r = <<>> THEN ExpireMinutesDefault ELSE IntOfText(r[1]))
        ELSE IF r # <<>> THEN r[1]
        ELSE IF k = "CORS_ORIGINS" THEN cd.items[1]
        ELSE TextDefault(k)

NoneSettings == [id |-> 0, f |-> EmptyMap]

\* Settings(): the instance, or the validation error listing every field
\* that is missing or invalid
Settings(e, d, cd, id) ==
    IF Missing(e, d) = {} /\ Invalid(e, d, cd) = {}
    THEN [ok |-> TRUE,
          inst |-> [id |-> id, f |-> [k \in Fields |-> FieldValue(k, e, d, cd)]],
          missing |-> {}, invalid |-> {}]
    ELSE [ok |-> FALSE, inst |-> NoneSettings,
          missing |-> Missing(e, d), invalid |-> Invalid(e, d, cd)]

\* an is_debug that compares the text as stored
is_debug_exact(s) == s.f["DEBUG"] = TrueText

\* Settings.is_debug
is_debug(s) == lower(s.f["DEBUG"]) = TrueText

\* Settings.cors_origins_list
cors_origins_list(s) ==
    LET pieces == split(s.f["CORS_ORIGINS"], ",")
    IN  [i \in 1..Len(pieces) |-> strip(pieces[i])]

(***************************************************************************)
(* The health probe and str(e).                                            *)
(***************************************************************************)
\* str(e) of an exception: "" without arguments, the argument itself when
\* there is one, the tuple's repr otherwise
RECURSIVE ReprItems(_)
ReprItems(args) ==
    IF args = <<>> THEN <<>>
    ELSE <<"'">> \o Head(args) \o <<"'">>
         \o (IF Len(args) > 1 THEN <<",", " ">> ELSE <<>>) \o ReprItems(Tail(args))

str(e) ==
    IF Len(e.args) = 0 THEN <<>>
    ELSE IF Len(e.args) = 1 THEN e.args[1]
    ELSE <<"(">> \o ReprItems(e.args) \o <<")">>

NoProbe == [ran |-> FALSE, ok |-> FALSE, args |-> <<>>]

\* what supabase.table(...).select(...).limit(0).execute() can do: return,
\* or raise an exception carrying zero, one or two arguments
ProbeOutcomes ==
    { [ran |-> TRUE, ok |-> TRUE, args |-> <<>>],
      [ran |-> TRUE, ok |-> FALSE, args |-> <<>>],
      [ran |-> TRUE, ok |-> FALSE, args |-> << <<"t", "i", "m", "e", "d", " ", "o", "u", "t">> >>],
      [ran |-> TRUE, ok |-> FALSE, args |-> << <<"4", "0", "1">>, <<"d", "e", "n", "i", "e", "d">> >>] }

\* the status document before the probe
StatusResponse(settings) ==
    [k \in {"status", "version", "environment"} |->
        CASE k = "status" -> "healthy"
          [] k = "version" -> settings.f["API_VERSION"]
          [] k = "environment" -> settings.f["ENVIRONMENT"]]

\* the status document after the probe
WithDatabase(doc, o) ==
    IF o.ok
    THEN [k \in DOMAIN doc \cup {"database"} |->
            IF k = "database" THEN "connected" ELSE doc[k]]
    ELSE [k \in DOMAIN doc \cup {"database", "database_error"} |->
            CASE k = "database" -> "disconnected"
              [] k = "database_error" -> str(o)
              [] OTHER -> doc[k]]

(***************************************************************************)
(* State.                                                                  *)
(***************************************************************************)
VARIABLES
    startEnv,      \* the environment the process was started with
    disk,          \* the dotenv files in the working directory
    environ,       \* os.environ
    imported,      \* whether app.config has been imported
    cors_default,  \* the class default of Settings.cors_origins
    _settings,     \* the module global _settings (NoneSettings: None)
    nextId,        \* identity of the next Settings object created
    pc,            \* where each execution context is
    op,            \* the operation each context runs
    tmp,           \* the Settings object a context built and has not stored yet
    ret,           \* what get_settings() returned to the context
    err,           \* the validation error raised in the context
    probe,         \* the outcome of the context's database probe
    resp,          \* the context's status_response
    props          \* the derived properties the context read

vars == <<startEnv, disk, environ, imported, cors_default, _settings, nextId,
          pc, op, tmp, ret, err, probe, resp, props>>

NoError == [missing |-> {}, invalid |-> {}]

(***************************************************************************)
(* Operations.                                                             *)
(***************************************************************************)
\* import app.config: the module body loads the dotenv files into os.environ
\* and the class body evaluates the default of cors_origins
Import ==
    /\ ~imported
    /\ imported' = TRUE
    /\ environ' = LoadEnvFiles(environ, disk)
    /\ cors_default' = CorsClassDefault(environ')
    /\ UNCHANGED <<startEnv, disk, _settings, nextId, pc, op, tmp, ret, err,
                   probe, resp, props>>

\* a context calls get_settings() or health()
BeginCall(c, o) ==
    /\ imported
    /\ pc[c] = "idle"
    /\ pc' = [pc EXCEPT ![c] = "check"]
    /\ op' = [op EXCEPT ![c] = o]
    /\ UNCHANGED <<startEnv, disk, environ, imported, cors_default, _settings,
                   nextId, tmp, ret, err, probe, resp, props>>

\* no call is in progress in any context
Quiet == \A c \in Contexts : pc[c] \in {"idle", "done", "raised"}

\* a call that starts while no other call is in progress
BeginCallAlone(c, o) == Quiet /\ BeginCall(c, o)

\* a test that never finds the cached object
IsNoneAlways(s) == TRUE

\* _settings is None

IsNone(s) == s = NoneSettings

\* get_settings(): if _settings is None
Check(c) ==
    /\ pc[c] = "check"
    /\ pc' = [pc EXCEPT ![c] = IF IsNone(_settings) THEN "construct" ELSE "return"]
    /\ UNCHANGED <<startEnv, disk, environ, imported, cors_default, _settings,
                   nextId, op, tmp, ret, err, probe, resp, props>>

\* a construction that stores what it has built before validation ends
ConstructCachingFailure(c) ==
    /\ pc[c] = "construct"
    /\ LET r == Settings(environ, disk, cors_default, nextId)
       IN  IF r.ok
           THEN /\ tmp' = [tmp EXCEPT ![c] = r.inst]
                /\ nextId' = nextId + 1
                /\ pc' = [pc EXCEPT ![c] = "assign"]
                /\ UNCHANGED <<err, _settings>>
           ELSE /\ err' = [err EXCEPT ![c] = [missing |-> r.missing, invalid |-> r.invalid]]
                /\ pc' = [pc EXCEPT ![c] = "raised"]
                /\ _settings' = [id |-> nextId,
                                 f |-> [k \in Fields \ (r.missing \cup r.invalid) |->
                                          FieldValue(k, environ, disk, cors_default)]]
                /\ nextId' = nextId + 1
                /\ tmp' = tmp
    /\ UNCHANGED <<startEnv, disk, environ, imported, cors_default,
                   op, ret, probe, resp, props>>

\* get_settings(): Settings(), which raises or yields the object to store
Construct(c) ==
    /\ pc[c] = "construct"
    /\ LET r == Settings(environ, disk, cors_default, nextId)
       IN  IF r.ok
           THEN /\ tmp' = [tmp EXCEPT ![c] = r.inst]
                /\ nextId' = nextId + 1
                /\ pc' = [pc EXCEPT ![c] = "assign"]
                /\ err' = err
           ELSE /\ err' = [err EXCEPT ![c] = [missing |-> r.missing, invalid |-> r.invalid]]
                /\ pc' = [pc EXCEPT ![c] = "raised"]
                /\ UNCHANGED <<tmp, nextId>>
    /\ UNCHANGED <<startEnv, disk, environ, imported, cors_default, _settings,
                   op, ret, probe, resp, props>>

\* get_settings(): _settings = <the object built>
Assign(c) ==
    /\ pc[c] = "assign"
    /\ _settings' = tmp[c]
    /\ tmp' = [tmp EXCEPT ![c] = NoneSettings]
    /\ pc' = [pc EXCEPT ![c] = "return"]
    /\ UNCHANGED <<startEnv, disk, environ, imported, cors_default, nextId,
                   op, ret, err, probe, resp, props>>

\* get_settings(): return _settings; in health() the caller goes on to build
\* status_response from the object returned
Return(c) ==
    /\ pc[c] = "return"
    /\ ret' = [ret EXCEPT ![c] = _settings]
    /\ IF op[c] = "health"
       THEN /\ resp' = [resp EXCEPT ![c] = StatusResponse(_settings)]
            /\ pc' = [pc EXCEPT ![c] = "probe"]
       ELSE /\ resp' = resp
            /\ pc' = [pc EXCEPT ![c] = "done"]
    /\ UNCHANGED <<startEnv, disk, environ, imported, cors_default, _settings,
                   nextId, op, tmp, err, probe, props>>

\* a probe outside any try block: what it raises ends the call
ProbeUncaught(c) ==
    /\ pc[c] = "probe"
    /\ \E o \in ProbeOutcomes :
          /\ probe' = [probe EXCEPT ![c] = o]
          /\ IF o.ok
             THEN /\ resp' = [resp EXCEPT ![c] = WithDatabase(resp[c], o)]
                  /\ pc' = [pc EXCEPT ![c] = "done"]
             ELSE /\ resp' = [resp EXCEPT ![c] = EmptyMap]
                  /\ pc' = [pc EXCEPT ![c] = "raised"]
    /\ UNCHANGED <<startEnv, disk, environ, imported, cors_default, _settings,
                   nextId, op, tmp, ret, err, props>>

\* health(): the try block; whatever the probe raises is caught and recorded
Probe(c) ==
    /\ pc[c] = "probe"
    /\ \E o \in ProbeOutcomes :
          /\ probe' = [probe EXCEPT ![c] = o]
          /\ resp' = [resp EXCEPT ![c] = WithDatabase(resp[c], o)]
    /\ pc' = [pc EXCEPT ![c] = "done"]
    /\ UNCHANGED <<startEnv, disk, environ, imported, cors_default, _settings,
                   nextId, op, tmp, ret, err, props>>

\* the caller of get_settings() reads is_debug and cors_origins_list
AccessProperties(c) ==
    /\ pc[c] = "done"
    /\ op[c] = "get_settings"
    /\ props' = [props EXCEPT ![c] =
                   <<[is_debug |-> is_debug(ret[c]),
                      cors_origins_list |-> cors_origins_list(ret[c])]>>]
    /\ UNCHANGED <<startEnv, disk, environ, imported, cors_default, _settings,
                   nextId, pc, op, tmp, ret, err, probe, resp>>

\* the call is over and the context drops what it held
Finish(c) ==
    /\ pc[c] \in {"done", "raised"}
    /\ pc' = [pc EXCEPT ![c] = "idle"]
    /\ op' = [op EXCEPT ![c] = "none"]
    /\ tmp' = [tmp EXCEPT ![c] = NoneSettings]
    /\ ret' = [ret EXCEPT ![c] = NoneSettings]
    /\ err' = [err EXCEPT ![c] = NoError]
    /\ probe' = [probe EXCEPT ![c] = NoProbe]
    /\ resp' = [resp EXCEPT ![c] = EmptyMap]
    /\ props' = [props EXCEPT ![c] = <<>>]
    /\ UNCHANGED <<startEnv, disk, environ, imported, cors_default, _settings, nextId>>

\* the process environment is changed between calls
ChangeableKeys == {"API_VERSION", "JWT_SECRET_KEY"}

ChangedValues == { <<"v", "2">> }

EnvChange ==
    /\ imported
    /\ \E k \in ChangeableKeys :
          \/ \E v \in ChangedValues :
                environ' = [x \in DOMAIN environ \cup {k} |-> IF x = k THEN v ELSE environ[x]]
          \/ /\ k \in DOMAIN environ
             /\ environ' = [x \in DOMAIN environ \ {k} |-> environ[x]]
    /\ environ' # environ
    /\ UNCHANGED <<startEnv, disk, imported, cors_default, _settings, nextId,
                   pc, op, tmp, ret, err, probe, resp, props>>

(***************************************************************************)
(* Initial states: the process environment and the files the process is    *)
(* started with.                                                           *)
(***************************************************************************)
\* the union of two mappings, the first taking precedence
Merge(a, b) == [k \in DOMAIN a \cup DOMAIN b |-> IF k \in DOMAIN a THEN a[k] ELSE b[k]]

One(k, v) == [x \in {k} |-> v]

EnvText == <<"e">>
TierText == <<"t">>
LocalText == <<"l">>
DotenvText == <<"d">>

RequiredFrom(S, v) == [k \in S |-> v]

CorsSample == <<"a", ",", " ", "b", ",", "c">>

\* ENVIRONMENT unset, a recognised tier, an unrecognised one
SelectorChoices == {EmptyMap, One("ENVIRONMENT", production), One("ENVIRONMENT", <<"q", "a">>)}

CorsChoices ==
    {EmptyMap, One("CORS_ORIGINS", CorsSample), One("CORS_ORIGINS", <<>>),
     One("CORS_ORIGINS", <<" ", "a", " ", ",", ",", "b", " ">>)}

DebugChoices ==
    {EmptyMap} \cup
    {One("DEBUG", v) : v \in { <<"t", "r", "u", "e">>, <<"T", "r", "u", "e">>, <<"T", "R", "U", "E">>, <<"f", "a", "l", "s", "e">>, <<>>, <<"1">>,
                               <<"t", "r", "u", "e", " ">> }}

IntChoices ==
    {EmptyMap} \cup
    {One("JWT_ACCESS_TOKEN_EXPIRE_MINUTES", v) : v \in { <<"3", "0">>, <<"x">> }}

\* environments that differ in the required keys, the tier and CORS_ORIGINS
LoadingEnvs ==
    {Merge(RequiredFrom(S, EnvText), Merge(sel, cors)) :
        S \in SUBSET RequiredFields, sel \in SelectorChoices,
        cors \in {EmptyMap, One("CORS_ORIGINS", CorsSample)}}

\* complete environments that differ in DEBUG, CORS_ORIGINS and the integer field
PropertyEnvs ==
    {Merge(RequiredFrom(RequiredFields, EnvText), Merge(dbg, Merge(cors, n))) :
        dbg \in DebugChoices, cors \in CorsChoices, n \in IntChoices}

ProductionFile ==
    Merge(One("SUPABASE_URL", TierText),
          Merge(One("JWT_SECRET_KEY", TierText), One("API_VERSION", <<"v", "2">>)))

LocalFile ==
    Merge(One("SUPABASE_URL", LocalText), One("SUPABASE_JWT_SECRET", LocalText))

DotenvFile ==
    Merge(One("SUPABASE_URL", DotenvText),
          Merge(One("SUPABASE_ANON_KEY", DotenvText),
                Merge(One("API_VERSION", <<"v", "3">>),
                      Merge(One("DEBUG", <<"T", "r", "u", "e">>), One("CORS_ORIGINS", <<"x", ",", "y">>)))))

Disks ==
    {Merge(a, Merge(b, c)) :
        a \in {EmptyMap, One(".env.production", ProductionFile)},
        b \in {EmptyMap, One(".env.local", LocalFile)},
        c \in {EmptyMap, One(".env", DotenvFile)}}

InitProcess ==
    /\ environ = startEnv
    /\ imported = FALSE
    /\ cors_default = [isStr |-> FALSE, items |-> <<>>]
    /\ _settings = NoneSettings
    /\ nextId = 1
    /\ pc = [c \in Contexts |-> "idle"]
    /\ op = [c \in Contexts |-> "none"]
    /\ tmp = [c \in Contexts |-> NoneSettings]
    /\ ret = [c \in Contexts |-> NoneSettings]
    /\ err = [c \in Contexts |-> NoError]
    /\ probe = [c \in Contexts |-> NoProbe]
    /\ resp = [c \in Contexts |-> EmptyMap]
    /\ props = [c \in Contexts |-> <<>>]

\* any of the environments and disks above
InitConfig ==
    /\ startEnv \in LoadingEnvs \cup PropertyEnvs
    /\ disk \in Disks
    /\ InitProcess

\* a complete environment, or one that lacks a required key, and no files
CompleteEnv ==
    Merge(RequiredFrom(RequiredFields, EnvText), One("CORS_ORIGINS", CorsSample))

Init ==
    /\ startEnv \in {CompleteEnv, [k \in DOMAIN CompleteEnv \ {"JWT_SECRET_KEY"} |-> CompleteEnv[k]]}
    /\ disk = EmptyMap
    /\ InitProcess

(***************************************************************************)
(* Specifications.                                                         *)
(***************************************************************************)
\* contexts run get_settings() and health() concurrently
Next ==
    \/ Import
    \/ \E c \in Contexts : \E o \in {"get_settings", "health"} : BeginCall(c, o)
    \/ \E c \in Contexts : Check(c)
    \/ \E c \in Contexts : Construct(c)
    \/ \E c \in Contexts : Assign(c)
    \/ \E c \in Contexts : Return(c)
    \/ \E c \in Contexts : Probe(c)
    \/ \E c \in Contexts : Finish(c)

Spec == Init /\ [][Next]_vars

\* calls that do not overlap, in a process whose environment may change at
\* any time after the import
NextSeq ==
    \/ Import
    \/ EnvChange
    \/ \E c \in Contexts : \E o \in {"get_settings", "health"} : BeginCallAlone(c, o)
    \/ \E c \in Contexts : Check(c)
    \/ \E c \in Contexts : Construct(c)
    \/ \E c \in Contexts : Assign(c)
    \/ \E c \in Contexts : Return(c)
    \/ \E c \in Contexts : Probe(c)
    \/ \E c \in Contexts : Finish(c)

SpecSeq == Init /\ [][NextSeq]_vars

\* configuration resolution: every environment and disk, an environment that
\* stays as loaded, calls of get_settings() that do not overlap
NextConfig ==
    \/ Import
    \/ \E c \in Contexts : BeginCallAlone(c, "get_settings")
    \/ \E c \in Contexts : Check(c)
    \/ \E c \in Contexts : Construct(c)
    \/ \E c \in Contexts : Assign(c)
    \/ \E c \in Contexts : Return(c)
    \/ \E c \in Contexts : AccessProperties(c)
    \/ \E c \in Contexts : Finish(c)

SpecConfig == InitConfig /\ [][NextConfig]_vars

(***************************************************************************)
(* Properties.                                                             *)
(***************************************************************************)
Held(c) == ret[c] # NoneSettings

HealthDone(c) == op[c] = "health" /\ pc[c] = "done"

\* C1: whatever the probe does, health() returns a document with status
\* "healthy", the version and environment of the settings it obtained, and
\* database "connected" exactly when the probe returned and "disconnected"
\* exactly when it raised; once the probe has run the call never ends in an
\* error.
C1_HealthAnswersWhateverTheProbeDoes ==
    \A c \in Contexts :
        /\ probe[c].ran => HealthDone(c)
        /\ HealthDone(c) =>
              /\ probe[c].ran
              /\ {"status", "version", "environment", "database"} \subseteq DOMAIN resp[c]
              /\ resp[c]["status"] = "healthy"
              /\ resp[c]["version"] = ret[c].f["API_VERSION"]
              /\ resp[c]["environment"] = ret[c].f["ENVIRONMENT"]
              /\ (resp[c]["database"] = "connected") <=> probe[c].ok
              /\ (resp[c]["database"] = "disconnected") <=> ~probe[c].ok

\* a health() call that answered although its probe raised
C1_Witness ==
    \E c \in Contexts :
        /\ HealthDone(c)
        /\ ~probe[c].ok
        /\ resp[c]["database"] = "disconnected"

\* C2: a returned document has the key database_error exactly when database
\* is "disconnected", and the value under that key is a non-empty text.
C2_ErrorKeyIffDisconnectedAndNonEmpty ==
    \A c \in Contexts :
        HealthDone(c) =>
            /\ ("database_error" \in DOMAIN resp[c]) <=> (resp[c]["database"] = "disconnected")
            /\ "database_error" \in DOMAIN resp[c] => Len(resp[c]["database_error"]) > 0

\* C3: with calls that do not overlap, once _settings is set it is never
\* replaced and no further Settings object is built, whatever happens to the
\* environment, and every call returns that one object.
C3_CachedInstanceReused ==
    /\ [](\A c \in Contexts : Held(c) => ret[c] = _settings)
    /\ [][_settings # NoneSettings => (_settings' = _settings /\ nextId' = nextId)]_vars

\* two calls hold the cached object although the environment no longer
\* agrees with it
C3_Witness ==
    \E c, d \in Contexts :
        /\ c # d
        /\ pc[c] = "done" /\ pc[d] = "done"
        /\ Held(c) /\ ret[c] = ret[d]
        /\ getenv(environ, "API_VERSION", ApiVersionDefault) # ret[c].f["API_VERSION"]

\* C4: under every interleaving of concurrent first calls, Settings is built
\* at most once and all callers hold the same object.
C4_BuiltOnceUnderEveryInterleaving ==
    /\ nextId - 1 <= 1
    /\ \A c, d \in Contexts : (Held(c) /\ Held(d)) => ret[c] = ret[d]

\* C10: a construction that raises leaves _settings unset, the context ends
\* in the error holding neither a Settings object nor a status document, and
\* a call that finds _settings unset goes on to construct; what a call
\* returns is always a complete object.
C10_FailureLeavesNothingCached ==
    /\ [](\A c \in Contexts :
            /\ pc[c] = "raised" =>
                  /\ ~Held(c) /\ resp[c] = EmptyMap /\ tmp[c] = NoneSettings
                  /\ err[c] # NoError
            /\ Held(c) => DOMAIN ret[c].f = Fields)
    /\ [][\A c \in Contexts :
            /\ (pc[c] = "construct" /\ pc'[c] = "raised") => _settings' = NoneSettings
            /\ (pc[c] = "check" /\ pc'[c] # "check" /\ _settings = NoneSettings)
                  => pc'[c] = "construct"]_vars

\* a health() call ended in the validation error and nothing is cached
C10_Witness ==
    \E c \in Contexts :
        /\ pc[c] = "raised" /\ op[c] = "health"
        /\ err[c].missing # {}
        /\ _settings = NoneSettings

\* the file the tier of the starting environment selects, and its contents
TierName == env_file(startEnv)

TierExists == exists(disk, TierName)

TierFile == disk[TierName]

TextFields == Fields \ IntFields

\* C5 as amended: once the module is imported with the selected file on
\* disk, every key the file defines holds the file's value if the process
\* environment did not have the key, and the value it already had otherwise.
C5_TieredFileFillsUnsetKeys ==
    (imported /\ TierExists) =>
        \A k \in DOMAIN TierFile :
            /\ k \in DOMAIN environ
            /\ environ[k] = IF k \in DOMAIN startEnv THEN startEnv[k] ELSE TierFile[k]

\* the file was loaded over an environment that already held one of its
\* keys with another value and lacked another of its keys
C5_Witness ==
    /\ imported /\ TierExists
    /\ \E k \in DOMAIN TierFile \cap DOMAIN startEnv : TierFile[k] # startEnv[k]
    /\ \E k \in DOMAIN TierFile \ DOMAIN startEnv : environ[k] = TierFile[k]

\* C5 as stated: every key the selected file defines holds the file's value
\* after loading, whatever the environment held before.
C5_TieredFileOverrides ==
    (imported /\ TierExists) =>
        \A k \in DOMAIN TierFile : k \in DOMAIN environ /\ environ[k] = TierFile[k]

\* the tiered file and the generic .env are both on disk
BothFiles == TierName # ".env" /\ TierExists /\ exists(disk, ".env")

\* C6 as amended: with .env on disk, every text field .env defines resolves
\* to the process environment's value if it had one, else to the tiered
\* file's value if that file exists and defines it, else to .env's value;
\* this holds whether or not the tiered file exists.
C6_DotenvFillsWhatIsUnset ==
    \A c \in Contexts :
        (Held(c) /\ exists(disk, ".env")) =>
            \A k \in TextFields \cap DOMAIN disk[".env"] :
                ret[c].f[k] =
                    IF k \in DOMAIN startEnv THEN startEnv[k]
                    ELSE IF TierExists /\ k \in DOMAIN TierFile THEN TierFile[k]
                    ELSE disk[".env"][k]

\* Settings built with both files on disk: a key of both that the
\* environment held too, a key of both that it did not hold, and a key of
\* .env alone
C6_Witness ==
    \E c \in Contexts :
        /\ Held(c) /\ BothFiles
        /\ \E k \in TextFields \cap DOMAIN TierFile \cap DOMAIN disk[".env"] :
              k \in DOMAIN startEnv /\ ret[c].f[k] # TierFile[k]
        /\ \E k \in TextFields \cap DOMAIN TierFile \cap DOMAIN disk[".env"] :
              k \notin DOMAIN startEnv /\ ret[c].f[k] = TierFile[k]
        /\ \E k \in (TextFields \cap DOMAIN disk[".env"]) \ DOMAIN TierFile :
              k \notin DOMAIN startEnv /\ ret[c].f[k] = disk[".env"][k]

\* C6 as stated: with both files on disk, a key defined in both resolves to
\* the tiered file's value, and a key defined only in .env is applied.
C6_TieredValueWinsForSharedKeys ==
    \A c \in Contexts :
        (Held(c) /\ BothFiles) =>
            \A k \in TextFields \cap DOMAIN disk[".env"] :
                /\ k \in DOMAIN TierFile => ret[c].f[k] = TierFile[k]
                /\ (k \notin DOMAIN TierFile /\ k \notin DOMAIN startEnv)
                      => ret[c].f[k] = disk[".env"][k]

\* no source provides the key: neither the environment nor .env
NoSource(k) ==
    k \notin DOMAIN environ /\ ~(exists(disk, ".env") /\ k \in DOMAIN disk[".env"])

\* C7: construction fails when a required field is absent, the error then
\* names every absent required field, and construction succeeds when all
\* five are present and the integer field, if given, is an integer.
C7_FailsIffRequiredMissing ==
    \A c \in Contexts :
        /\ (pc[c] = "assign" \/ Held(c)) => \A k \in RequiredFields : ~NoSource(k)
        /\ pc[c] = "raised" =>
              /\ err[c].missing = {k \in RequiredFields : NoSource(k)}
              /\ \/ \E k \in RequiredFields : NoSource(k)
                 \/ \E k \in IntFields : ~NoSource(k) /\ ~IsIntText(Raw(k, environ, disk)[1])

\* the a, b, c of the sample
SampleOrigins == << <<"a">>, <<"b">>, <<"c">> >>

Commas(s) == Cardinality({i \in 1..Len(s) : s[i] = ","})

\* C8: construction never fails on cors_origins, also when CORS_ORIGINS is
\* absent, and cors_origins_list is the stored text split at its commas,
\* each piece without surrounding whitespace, in order.
C8_CorsOriginsIsTextAndSplits ==
    \A c \in Contexts :
        /\ pc[c] = "raised" => "CORS_ORIGINS" \notin err[c].invalid
        /\ props[c] # <<>> =>
              LET l == props[c][1].cors_origins_list
                  s == ret[c].f["CORS_ORIGINS"]
              IN  /\ Len(l) = Commas(s) + 1
                  /\ \A i \in 1..Len(l) :
                        l[i] = <<>> \/ (~IsSpace(l[i][1]) /\ ~IsSpace(l[i][Len(l[i])]))
                  /\ s = CorsSample => l = SampleOrigins

\* every spelling of "true" in upper and lower case
TrueSpellings ==
    {<<a, b, c, d>> : a \in {"t", "T"}, b \in {"r", "R"}, c \in {"u", "U"}, d \in {"e", "E"}}

\* C9: each read of is_debug is true exactly when the stored debug text is a
\* spelling of "true" in upper or lower case letters.
C9_IsDebugIffTrueIgnoringCase ==
    \A c \in Contexts :
        props[c] # <<>> => (props[c][1].is_debug <=> ret[c].f["DEBUG"] \in TrueSpellings)

\* is_debug was read as true from a debug text that is not all lower case
C9_Witness ==
    \E c \in Contexts :
        /\ props[c] # <<>>
        /\ props[c][1].is_debug
        /\ ret[c].f["DEBUG"] # TrueText

=============================================================================
